---- MODULE Spec2Model ----
(***************************************************************************)
(* A model of four units of the identity console:                         *)
(*   - the profile service client (getGravatarImage, getProfileInfo,       *)
(*     updateProfileInfo, getProfileSchemas, switchAccount),               *)
(*   - the email template list page (EmailTemplates) and its client-side   *)
(*     pagination,                                                         *)
(*   - the pagination slice taken on its own, as a pure function,          *)
(*   - the application feature configuration (applicationConfig).          *)
(* Each unit has its own specification (SpecProfile, SpecPage, SpecSlice,  *)
(* SpecConfig; SpecMount is the page left alone with a steady server)      *)
(* over the shared variables; a specification leaves the other units'      *)
(* variables at their initial values.                                      *)
(***************************************************************************)
EXTENDS Integers, Sequences, FiniteSets, TLC

VARIABLES
    \* ---- profile service client ----
    op,              \* the operation whose promise is being followed
    pc,              \* "idle" | "http" | "gravatar" | "done"
    response,        \* the `response` the then handler was called with
    promise,         \* the promise returned to the caller: [state, value]
    gravatarPromise, \* the promise returned by getGravatarImage: [state, value]
    gravatarUrl,     \* requestConfig.url of the getGravatarImage call
    originalError,   \* the error the transport failed with (history)
    events,          \* what the call did so far, in order (history)
    \* ---- email template list page ----
    mounted,
    batchedUpdates,  \* whether the runtime batches state updates made in a promise callback
    listItemLimit,
    listOffset,
    emailTemplateTypeDetails,
    emailTemplates,
    paginatedemailTemplates,
    inflight,        \* getEmailTemplate requests not yet answered, with their closures
    fetchCount,      \* number of getEmailTemplate requests issued
    lastEvent,       \* the last page event (history)
    \* ---- pagination slice as a pure function ----
    sliceList,
    sliceOffset,
    sliceLimit,
    sliceResult,
    sliceDone,
    \* ---- application feature configuration ----
    applicationConfig, \* the data leaves of the configuration object
    hook,              \* the hook called last
    hookArgs,          \* its arguments
    hookResult         \* what it returned

profileVars == <<op, pc, response, promise, gravatarPromise, gravatarUrl, originalError, events>>
pageVars == <<mounted, batchedUpdates, listItemLimit, listOffset, emailTemplateTypeDetails,
              emailTemplates, paginatedemailTemplates, inflight, fetchCount, lastEvent>>
sliceVars == <<sliceList, sliceOffset, sliceLimit, sliceResult, sliceDone>>
configVars == <<applicationConfig, hook, hookArgs, hookResult>>
vars == <<profileVars, pageVars, sliceVars, configVars>>

(***************************************************************************)
(* JavaScript values.  A value is a record [t, v]: t is the run-time type  *)
(* and v the payload.  An object's payload is a function from its own keys *)
(* to values, so an absent key is a key outside the function's domain.     *)
(***************************************************************************)
Undefined == [t |-> "undefined", v |-> 0]
Null == [t |-> "null", v |-> 0]
Str(s) == [t |-> "string", v |-> s]
Num(n) == [t |-> "number", v |-> n]
Arr(a) == [t |-> "array", v |-> a]
Obj(f) == [t |-> "object", v |-> f]
EmptyObj == Obj([k \in {} |-> Undefined])

\* o.k / o[k]: undefined for a key the object does not have.
Get(o, k) == IF o.t = "object" /\ k \in DOMAIN o.v THEN o.v[k] ELSE Undefined

\* a[i] with a zero-based index: undefined outside the array.
Index(a, i) == IF a.t = "array" /\ i + 1 \in DOMAIN a.v THEN a.v[i + 1] ELSE Undefined

\* Reading a property of undefined or null raises a TypeError.
IsNullish(x) == x.t \in {"undefined", "null"}

\* ToBoolean.
Truthy(x) ==
    CASE x.t \in {"undefined", "null"} -> FALSE
      [] x.t = "string" -> x.v # ""
      [] x.t = "number" -> x.v # 0
      [] OTHER -> TRUE

\* a || b
Or(a, b) == IF Truthy(a) THEN a ELSE b

\* lodash isEmpty.
IsEmpty(x) ==
    CASE x.t = "string" -> x.v = ""
      [] x.t = "array" -> x.v = <<>>
      [] x.t = "object" -> DOMAIN x.v = {}
      [] OTHER -> TRUE

\* { ...computed, ...data }: the keys of data win.
Spread(computed, data) == IF data.t = "object" THEN Obj(data.v @@ computed) ELSE Obj(computed)

(***************************************************************************)
(* Profile service client: constants, exceptions and inputs.               *)
(***************************************************************************)
orgKey == "urn:ietf:params:scim:schemas:extension:enterprise:2.0:User"

GRAVATAR_IMAGE_FETCH_REQUEST_ERROR == "GRAVATAR_IMAGE_FETCH_REQUEST_ERROR"
PROFILE_INFO_FETCH_REQUEST_INVALID_RESPONSE_CODE_ERROR ==
    "PROFILE_INFO_FETCH_REQUEST_INVALID_RESPONSE_CODE_ERROR"
PROFILE_INFO_FETCH_REQUEST_ERROR == "PROFILE_INFO_FETCH_REQUEST_ERROR"
PROFILE_INFO_UPDATE_REQUEST_INVALID_RESPONSE_CODE_ERROR ==
    "PROFILE_INFO_UPDATE_REQUEST_INVALID_RESPONSE_CODE_ERROR"
PROFILE_INFO_UPDATE_REQUEST_ERROR == "PROFILE_INFO_UPDATE_REQUEST_ERROR"
SCHEMA_FETCH_REQUEST_INVALID_RESPONSE_CODE_ERROR ==
    "SCHEMA_FETCH_REQUEST_INVALID_RESPONSE_CODE_ERROR"
SCHEMA_FETCH_REQUEST_ERROR == "SCHEMA_FETCH_REQUEST_ERROR"
ACCOUNT_SWITCH_REQUEST_ERROR == "ACCOUNT_SWITCH_REQUEST_ERROR"

\* new IdentityAppsApiException(errorCode, stack, code, request, response, config).
\* The fields are named after the constructor's argument positions; a catch handler
\* reads stack, code, request, response and config of whatever it caught.
IdentityAppsApiException(errorCode, stack, code, request, resp, config) ==
    Obj([errorCode |-> Str(errorCode), stack |-> stack, code |-> code,
         request |-> request, response |-> resp, config |-> config])

\* A catch handler that drops the stack of the error it caught.
RequestErrorWithoutStack(errorCode, error) ==
    IdentityAppsApiException(errorCode, Null, Get(error, "code"),
        Get(error, "request"), Get(error, "response"), Get(error, "config"))

\* The exception every catch handler builds from the error it caught.
RequestError(errorCode, error) ==
    IdentityAppsApiException(errorCode, Get(error, "stack"), Get(error, "code"),
        Get(error, "request"), Get(error, "response"), Get(error, "config"))

\* The exception a then handler throws for a response whose status is not 200.
InvalidResponseCode(errorCode, resp) ==
    IdentityAppsApiException(errorCode, Null, Get(resp, "status"),
        Get(resp, "request"), resp, Get(resp, "config"))

\* What reading a property of undefined raises.
TypeError == Obj([stack |-> Str("TypeError")])

\* An object with the keys of f whose value is not undefined.
MkObj(f) == Obj([k \in {k \in DOMAIN f : f[k] # Undefined} |-> f[k]])

Resp(status, data) ==
    Obj([status |-> Num(status), data |-> data,
         request |-> Str("request"), config |-> Str("config")])

UserImages == {Undefined, Str(""), Str("https://img.example/me.png")}
ProfileUrls == {Undefined, Str(""), Str("https://profile.example/me")}
Emails == {Undefined, Arr(<<>>), Arr(<<Str("a@example.org")>>),
           Arr(<<Obj([value |-> Str("b@example.org")])>>)}
Names == {Undefined, Obj([familyName |-> Str("Doe"), givenName |-> Str("Jo")])}
Enterprise == {Undefined, Obj([department |-> Str("R&D")]),
               Obj([organization |-> Str("WSO2")])}
PhoneNumbers == {Undefined, Arr(<<Str("0123")>>)}
Roles == {Undefined, Arr(<<Str("admin")>>)}
UserNames == {Undefined, Str("jo")}

\* The bodies of a SCIM "me" response.
ProfileData ==
    { MkObj((orgKey :> en) @@
            [userImage |-> ui, profileUrl |-> pu, emails |-> em, name |-> nm,
             phoneNumbers |-> ph, roles |-> ro, userName |-> un]) :
        ui \in UserImages, pu \in ProfileUrls, em \in Emails, nm \in Names,
        en \in Enterprise, ph \in PhoneNumbers, ro \in Roles, un \in UserNames }

NonOkStatuses == {201, 204}

ProfileInfoResponses ==
    {Resp(200, d) : d \in ProfileData}
    \cup {Resp(s, d) : s \in NonOkStatuses, d \in {EmptyObj, Obj([status |-> Str("500")])}}

UpdateResponses ==
    {Resp(200, Obj([userName |-> Str("jo")]))} \cup {Resp(s, EmptyObj) : s \in NonOkStatuses}

SchemaResponses ==
    {Resp(200, Arr(<<>>)), Resp(200, Arr(<<Obj([attributes |-> Arr(<<Str("emails")>>)])>>))}
    \cup {Resp(s, Arr(<<>>)) : s \in NonOkStatuses}

SwitchResponses == {Undefined, Obj([data |-> Str("session")])}

\* error.response of a failed request: none, or a response whose payload may carry a status.
ErrorResponses ==
    {Undefined}
    \cup {Obj([status |-> Num(500), data |-> d]) :
            d \in {Undefined, EmptyObj, Obj([status |-> Str("500")]),
                   Obj([status |-> Num(500)]), Obj([status |-> Str("404")])}}

AxiosErrors ==
    { MkObj([stack |-> Str(s), code |-> c, request |-> Str("request"),
             response |-> r, config |-> Str("config")]) :
        s \in {"stack1", "stack2"}, c \in {Undefined, Str("ECONNABORTED")},
        r \in ErrorResponses }

GravatarEmails == {"a@example.org", "b@example.org"}

NoPromise == [state |-> "none", value |-> Undefined]
Pending == [state |-> "pending", value |-> Undefined]
Resolved(x) == [state |-> "resolved", value |-> x]
Rejected(x) == [state |-> "rejected", value |-> x]

\* How often the call did e.
Count(e) == Cardinality({i \in DOMAIN events : events[i] = e})

\* Whether the call did a before it did b.
Before(a, b) ==
    \E i, j \in DOMAIN events : i < j /\ events[i] = a /\ events[j] = b

(***************************************************************************)
(* Profile service client: the handlers.                                   *)
(***************************************************************************)
\* ProfileUtils.buildGravatarURL(email, size, defaultImage, fallback)
buildGravatarURL(email) == Str("https://www.gravatar.com/avatar/" \o email)

\* The value a caught error leaves the returned promise with, per operation.
getGravatarImage_onRejected(error) == RequestError(GRAVATAR_IMAGE_FETCH_REQUEST_ERROR, error)
getProfileInfo_onRejected(error) == RequestError(PROFILE_INFO_FETCH_REQUEST_ERROR, error)
updateProfileInfo_onRejected(error) == RequestError(PROFILE_INFO_UPDATE_REQUEST_ERROR, error)
getProfileSchemas_onRejected(error) == RequestError(SCHEMA_FETCH_REQUEST_ERROR, error)
switchAccount_onRejected(error) == RequestError(ACCOUNT_SWITCH_REQUEST_ERROR, error)

\* The check with a loose comparison (== "500"), which the number 500 passes too.
IsSCIMDisabledErrorLoose(error) ==
    LET status == Get(Get(Get(error, "response"), "data"), "status") IN
    /\ Truthy(Get(error, "response"))
    /\ Truthy(Get(Get(error, "response"), "data"))
    /\ Truthy(status)
    /\ status \in {Str("500"), Num(500)}

\* error.response && error.response.data && error.response.data.status
\*     && error.response.data.status === "500"
IsSCIMDisabledError(error) ==
    LET status == Get(Get(Get(error, "response"), "data"), "status") IN
    /\ Truthy(Get(error, "response"))
    /\ Truthy(Get(Get(error, "response"), "data"))
    /\ Truthy(status)
    /\ status = Str("500")

\* _.isEmpty(response.data.userImage) && !response.data.profileUrl
NeedsGravatar(data) == IsEmpty(Get(data, "userImage")) /\ ~Truthy(Get(data, "profileUrl"))

\* Evaluating the email argument of getGravatarImage reads emails[0] and, when that
\* is no string, emails[0].value: a TypeError when emails or emails[0] is undefined.
EmailArgumentThrows(data) ==
    \/ IsNullish(Get(data, "emails"))
    \/ IsNullish(Index(Get(data, "emails"), 0))

EmailArgument(data) ==
    LET first == Index(Get(data, "emails"), 0) IN
    IF first.t = "string" THEN first ELSE Get(first, "value")

\* The object getProfileInfo resolves with, given the Gravatar URL it obtained ("" if none).
ProfileResponse(resp, gravatar) ==
    LET data == Get(resp, "data")
        profileImage == IF Truthy(Get(data, "profileUrl")) THEN Get(data, "profileUrl") ELSE gravatar
    IN  Spread([emails |-> Or(Get(data, "emails"), Str("")),
                name |-> Or(Get(data, "name"),
                            Obj([familyName |-> Str(""), givenName |-> Str("")])),
                organisation |-> IF Truthy(Get(data, orgKey))
                                    THEN Get(Get(data, orgKey), "organization")
                                    ELSE Str(""),
                phoneNumbers |-> Or(Get(data, "phoneNumbers"), Arr(<<>>)),
                profileUrl |-> Or(Get(data, "profileUrl"), Str("")),
                responseStatus |-> Or(Get(resp, "status"), Null),
                roles |-> Or(Get(data, "roles"), Arr(<<>>)),
                userImage |-> Or(Get(data, "userImage"), profileImage),
                userName |-> Or(Get(data, "userName"), Str(""))],
               data)

\* The lookup without its try block: the failure reaches the outer catch handler.
getProfileInfo_gravatarUncaught(resp, error) == Rejected(getProfileInfo_onRejected(error))

\* getProfileInfo when its Gravatar lookup failed with error: the catch block
\* leaves gravatar at "" and the profile is built without it.

getProfileInfo_gravatarCatch(resp, error) == Resolved(ProfileResponse(resp, Str("")))

\* The returned promise settles: the call is over.
Settle(p, evs) ==
    /\ promise' = p
    /\ events' = evs \o <<IF p.state = "resolved" THEN "resolve" ELSE "reject">>
    /\ pc' = "done"

\* getProfileInfo's catch handler, for a transport error or for what its then handler threw.
getProfileInfo_catchBody(error, evs) ==
    Settle(Rejected(getProfileInfo_onRejected(error)),
           IF IsSCIMDisabledError(error) THEN evs \o <<"onSCIMDisabled">> ELSE evs)

\* A new call: any earlier call is over.
Begin(o, request) ==
    /\ pc \in {"idle", "done"}
    /\ op' = o
    /\ pc' = "http"
    /\ promise' = Pending
    /\ response' = Undefined
    /\ originalError' = Undefined
    /\ events' = <<request>>

(***************************************************************************)
(* Profile service client: the actions.                                    *)
(***************************************************************************)
getGravatarImage ==
    \E email \in GravatarEmails :
        /\ Begin("getGravatarImage", "axios.request")
        /\ gravatarPromise' = Pending
        /\ gravatarUrl' = buildGravatarURL(email)
        /\ UNCHANGED <<pageVars, sliceVars, configVars>>

\* axios.request succeeded: getGravatarImage resolves with the URL.  Inside
\* getProfileInfo the await resumes and the profile is built with it.
getGravatarImage_then ==
    /\ gravatarPromise.state = "pending"
    /\ gravatarPromise' = Resolved(gravatarUrl)
    /\ IF op = "getGravatarImage"
          THEN Settle(Resolved(gravatarUrl), events)
          ELSE Settle(Resolved(ProfileResponse(response, gravatarUrl)), events)
    /\ UNCHANGED <<op, response, gravatarUrl, originalError, pageVars, sliceVars, configVars>>

\* axios.request failed: getGravatarImage rejects.  Inside getProfileInfo the
\* rejection is caught and gravatar stays "".
getGravatarImage_catch ==
    \E error \in AxiosErrors :
        /\ gravatarPromise.state = "pending"
        /\ gravatarPromise' = Rejected(getGravatarImage_onRejected(error))
        /\ originalError' = error
        /\ IF op = "getGravatarImage"
              THEN Settle(Rejected(getGravatarImage_onRejected(error)), events)
              ELSE Settle(getProfileInfo_gravatarCatch(response,
                            getGravatarImage_onRejected(error)), events)
        /\ UNCHANGED <<op, response, gravatarUrl, pageVars, sliceVars, configVars>>

getProfileInfo ==
    /\ Begin("getProfileInfo", "httpClient")
    /\ gravatarPromise' = NoPromise
    /\ gravatarUrl' = Undefined
    /\ UNCHANGED <<pageVars, sliceVars, configVars>>

getProfileInfo_then ==
    \E resp \in ProfileInfoResponses :
        LET data == Get(resp, "data") IN
        /\ op = "getProfileInfo" /\ pc = "http"
        /\ response' = resp
        /\ CASE Get(resp, "status") # Num(200) ->
                  /\ getProfileInfo_catchBody(
                        InvalidResponseCode(
                            PROFILE_INFO_FETCH_REQUEST_INVALID_RESPONSE_CODE_ERROR, resp),
                        events)
                  /\ UNCHANGED <<gravatarPromise, gravatarUrl>>
             [] Get(resp, "status") = Num(200) /\ NeedsGravatar(data)
                    /\ EmailArgumentThrows(data) ->
                  /\ Settle(getProfileInfo_gravatarCatch(resp, TypeError),
                            events \o <<"gravatarAttempt">>)
                  /\ UNCHANGED <<gravatarPromise, gravatarUrl>>
             [] Get(resp, "status") = Num(200) /\ NeedsGravatar(data)
                    /\ ~EmailArgumentThrows(data) ->
                  /\ gravatarPromise' = Pending
                  /\ gravatarUrl' = buildGravatarURL(EmailArgument(data).v)
                  /\ events' = events \o <<"gravatarAttempt", "axios.request">>
                  /\ pc' = "gravatar"
                  /\ UNCHANGED promise
             [] OTHER ->
                  /\ Settle(Resolved(ProfileResponse(resp, Str(""))), events)
                  /\ UNCHANGED <<gravatarPromise, gravatarUrl>>
        /\ UNCHANGED <<op, originalError, pageVars, sliceVars, configVars>>

getProfileInfo_catch ==
    \E error \in AxiosErrors :
        /\ op = "getProfileInfo" /\ pc = "http"
        /\ originalError' = error
        /\ getProfileInfo_catchBody(error, events)
        /\ UNCHANGED <<op, response, gravatarPromise, gravatarUrl, pageVars, sliceVars, configVars>>

updateProfileInfo ==
    /\ Begin("updateProfileInfo", "httpClient")
    /\ gravatarPromise' = NoPromise
    /\ gravatarUrl' = Undefined
    /\ UNCHANGED <<pageVars, sliceVars, configVars>>

updateProfileInfo_then ==
    \E resp \in UpdateResponses :
        /\ op = "updateProfileInfo" /\ pc = "http"
        /\ response' = resp
        /\ IF Get(resp, "status") # Num(200)
              THEN Settle(Rejected(updateProfileInfo_onRejected(
                        InvalidResponseCode(
                            PROFILE_INFO_UPDATE_REQUEST_INVALID_RESPONSE_CODE_ERROR, resp))),
                        events)
              ELSE Settle(Resolved(Get(resp, "data")), events)
        /\ UNCHANGED <<op, gravatarPromise, gravatarUrl, originalError,
                       pageVars, sliceVars, configVars>>

updateProfileInfo_catch ==
    \E error \in AxiosErrors :
        /\ op = "updateProfileInfo" /\ pc = "http"
        /\ originalError' = error
        /\ Settle(Rejected(updateProfileInfo_onRejected(error)), events)
        /\ UNCHANGED <<op, response, gravatarPromise, gravatarUrl, pageVars, sliceVars, configVars>>

getProfileSchemas ==
    /\ Begin("getProfileSchemas", "httpClient")
    /\ gravatarPromise' = NoPromise
    /\ gravatarUrl' = Undefined
    /\ UNCHANGED <<pageVars, sliceVars, configVars>>

getProfileSchemas_then ==
    \E resp \in SchemaResponses :
        LET first == Index(Get(resp, "data"), 0) IN
        /\ op = "getProfileSchemas" /\ pc = "http"
        /\ response' = resp
        /\ CASE Get(resp, "status") # Num(200) ->
                  Settle(Rejected(getProfileSchemas_onRejected(
                        InvalidResponseCode(
                            SCHEMA_FETCH_REQUEST_INVALID_RESPONSE_CODE_ERROR, resp))),
                        events)
             [] Get(resp, "status") = Num(200) /\ IsNullish(first) ->
                  \* response.data[0].attributes raises a TypeError, which the catch wraps
                  Settle(Rejected(getProfileSchemas_onRejected(TypeError)), events)
             [] OTHER ->
                  Settle(Resolved(Get(first, "attributes")), events)
        /\ UNCHANGED <<op, gravatarPromise, gravatarUrl, originalError,
                       pageVars, sliceVars, configVars>>

getProfileSchemas_catch ==
    \E error \in AxiosErrors :
        /\ op = "getProfileSchemas" /\ pc = "http"
        /\ originalError' = error
        /\ Settle(Rejected(getProfileSchemas_onRejected(error)), events)
        /\ UNCHANGED <<op, response, gravatarPromise, gravatarUrl, pageVars, sliceVars, configVars>>

switchAccount ==
    /\ Begin("switchAccount", "customGrant")
    /\ gravatarPromise' = NoPromise
    /\ gravatarUrl' = Undefined
    /\ UNCHANGED <<pageVars, sliceVars, configVars>>

switchAccount_then ==
    \E resp \in SwitchResponses :
        /\ op = "switchAccount" /\ pc = "http"
        /\ response' = resp
        \* response?.data
        /\ Settle(Resolved(IF IsNullish(resp) THEN Undefined ELSE Get(resp, "data")), events)
        /\ UNCHANGED <<op, gravatarPromise, gravatarUrl, originalError,
                       pageVars, sliceVars, configVars>>

switchAccount_catch ==
    \E error \in AxiosErrors :
        /\ op = "switchAccount" /\ pc = "http"
        /\ originalError' = error
        /\ Settle(Rejected(switchAccount_onRejected(error)), events)
        /\ UNCHANGED <<op, response, gravatarPromise, gravatarUrl, pageVars, sliceVars, configVars>>

NextProfile ==
    \/ getGravatarImage
    \/ getGravatarImage_then
    \/ getGravatarImage_catch
    \/ getProfileInfo
    \/ getProfileInfo_then
    \/ getProfileInfo_catch
    \/ updateProfileInfo
    \/ updateProfileInfo_then
    \/ updateProfileInfo_catch
    \/ getProfileSchemas
    \/ getProfileSchemas_then
    \/ getProfileSchemas_catch
    \/ switchAccount
    \/ switchAccount_then
    \/ switchAccount_catch

(***************************************************************************)
(* Email template list page.                                               *)
(***************************************************************************)
\* Bounds of the model.
MaxTemplates == 3
MaxVersions == 2
MaxFetches == 4

\* UserConstants.DEFAULT_EMAIL_TEMPLATE_TYPE_ITEM_LIMIT, which the constants module
\* defines; the model scales it down to keep the template lists short.
DEFAULT_EMAIL_TEMPLATE_TYPE_ITEM_LIMIT == 2

\* The page sizes the items-per-page dropdown offers.
ItemsPerPageOptions ==
    {DEFAULT_EMAIL_TEMPLATE_TYPE_ITEM_LIMIT, DEFAULT_EMAIL_TEMPLATE_TYPE_ITEM_LIMIT + 1}

Min(a, b) == IF a < b THEN a ELSE b
Max(a, b) == IF a > b THEN a ELSE b

\* Array.prototype.slice(start, end): a negative index counts from the end, both
\* are clamped to the array, and an empty range gives an empty array.
Slice(list, start, end) ==
    LET len == Len(list)
        k == IF start < 0 THEN Max(len + start, 0) ELSE Min(start, len)
        final == IF end < 0 THEN Max(len + end, 0) ELSE Min(end, len)
        count == Max(final - k, 0)
    IN  [i \in 1..count |-> list[k + i]]

\* A page that ends at itemLimit instead of itemLimit + offsetValue.
setEmailTemplateTypePageEndAtLimit(templates, offsetValue, itemLimit) ==
    Slice(templates, offsetValue, itemLimit)

\* What setEmailTemplateTypePage(offsetValue, itemLimit) stores as the visible
\* page, over the emailTemplates of the render that defined it.
setEmailTemplateTypePage(templates, offsetValue, itemLimit) ==
    Slice(templates, offsetValue, itemLimit + offsetValue)

\* A dependency list that also names the paging state.
FetchEffectDepsWithPaging(details, templates, offset, limit) ==
    <<details.defined, Len(templates), offset, limit>>

\* The dependency list of the fetch effect, for one render:
\* [emailTemplateTypeDetails !== undefined, emailTemplates.length].
FetchEffectDeps(details, templates, offset, limit) ==
    <<details.defined, Len(templates)>>

\* The template list of a type as the server holds it: version v of n templates.
TemplateList(v, n) == [i \in 1..n |-> 10 * v + i]

\* response.data of getEmailTemplate: templates may be missing (no array).
EmailTemplateDetails ==
    {[isArray |-> FALSE, templates |-> <<>>]}
    \cup {[isArray |-> TRUE, templates |-> TemplateList(v, n)] :
            v \in 1..MaxVersions, n \in 0..MaxTemplates}

EmailTemplateResponses ==
    {[status |-> st, data |-> d] : st \in {200, 204}, d \in EmailTemplateDetails}

NoDetails == [defined |-> FALSE, data |-> [isArray |-> FALSE, templates |-> <<>>]]

\* Math.ceil(emailTemplates?.length / listItemLimit): the pages the pagination
\* control offers (none before the page size is set).
TotalPages ==
    IF listItemLimit > 0
        THEN (Len(emailTemplates) + listItemLimit - 1) \div listItemLimit
        ELSE 0

\* A render whose dependency list differs from the previous render's runs the fetch
\* effect: one getEmailTemplate request, whose callback closes over that render's
\* listOffset, listItemLimit and emailTemplates.
RenderFetches(prevDeps, details, templates, offset, limit) ==
    IF FetchEffectDeps(details, templates, offset, limit) # prevDeps
        THEN <<[offset |-> offset, limit |-> limit, templates |-> templates]>>
        ELSE <<>>

\* The requests in closures, numbered from fetchCount + 1.
Issue(closures) ==
    {[id |-> fetchCount + i, offset |-> closures[i].offset, limit |-> closures[i].limit,
      templates |-> closures[i].templates] : i \in DOMAIN closures}

CurrentDeps == FetchEffectDeps(emailTemplateTypeDetails, emailTemplates, listOffset, listItemLimit)

\* Mount: both effects run after the first render.  The first sets the page size;
\* the second issues the first request, closing over the first render's state.
Mount ==
    /\ ~mounted
    /\ mounted' = TRUE
    /\ listItemLimit' = DEFAULT_EMAIL_TEMPLATE_TYPE_ITEM_LIMIT
    /\ inflight' = Issue(<<[offset |-> listOffset, limit |-> listItemLimit,
                            templates |-> emailTemplates]>>)
    /\ fetchCount' = fetchCount + 1
    /\ lastEvent' = "mount"
    /\ UNCHANGED <<batchedUpdates, listOffset, emailTemplateTypeDetails, emailTemplates,
                   paginatedemailTemplates, profileVars, sliceVars, configVars>>

\* The callback of a getEmailTemplate request f runs with the response resp.
\* With batched updates the three state updates give one render.  Without, each
\* update renders at once, and a pending fetch effect runs before the next one.
getEmailTemplate_callback(f, resp) ==
    LET ok == resp.status = 200
        hasTemplates == ok /\ resp.data.isArray /\ Len(resp.data.templates) # 0
        details == IF ok THEN [defined |-> TRUE, data |-> resp.data]
                         ELSE emailTemplateTypeDetails
        templates == IF hasTemplates THEN resp.data.templates ELSE emailTemplates
        page == IF hasTemplates
                   THEN setEmailTemplateTypePage(f.templates, f.offset, f.limit)
                   ELSE paginatedemailTemplates
        batched == RenderFetches(CurrentDeps, details, templates, listOffset, listItemLimit)
        afterDetails ==
            RenderFetches(CurrentDeps, details, emailTemplates, listOffset, listItemLimit)
        afterTemplates ==
            RenderFetches(
                FetchEffectDeps(details, emailTemplates, listOffset, listItemLimit),
                details, templates, listOffset, listItemLimit)
        closures == IF batchedUpdates THEN batched ELSE afterDetails \o afterTemplates
    IN  /\ mounted
        /\ fetchCount + Len(closures) <= MaxFetches
        /\ emailTemplateTypeDetails' = details
        /\ emailTemplates' = templates
        /\ paginatedemailTemplates' = page
        /\ inflight' = (inflight \ {f}) \cup Issue(closures)
        /\ fetchCount' = fetchCount + Len(closures)
        /\ lastEvent' = "response"
        /\ UNCHANGED <<mounted, batchedUpdates, listItemLimit, listOffset,
                       profileVars, sliceVars, configVars>>

getEmailTemplate_then ==
    \E f \in inflight, resp \in EmailTemplateResponses :
        getEmailTemplate_callback(f, resp)

\* Bound of the model: the longest list of a server that always answers alike.
MaxSameListLen == 8

\* The responses of a server that answers every request with status 200 and the
\* template list it answered before.
SameListResponses ==
    {resp \in {[status |-> 200, data |-> [isArray |-> TRUE, templates |-> TemplateList(v, n)]] :
                    v \in 1..MaxVersions, n \in 0..MaxSameListLen} :
        emailTemplateTypeDetails.defined => resp.data = emailTemplateTypeDetails.data}

\* The callback of a request runs with such a response.
getEmailTemplate_thenSameList ==
    \E f \in inflight, resp \in SameListResponses :
        getEmailTemplate_callback(f, resp)

handlePaginationChange ==
    \E activePage \in 1..TotalPages :
        LET offsetValue == (activePage - 1) * listItemLimit
            closures == RenderFetches(CurrentDeps, emailTemplateTypeDetails, emailTemplates,
                                      offsetValue, listItemLimit)
        IN  /\ mounted
            /\ fetchCount + Len(closures) <= MaxFetches
            /\ listOffset' = offsetValue
            /\ paginatedemailTemplates' =
                    setEmailTemplateTypePage(emailTemplates, offsetValue, listItemLimit)
            /\ inflight' = inflight \cup Issue(closures)
            /\ fetchCount' = fetchCount + Len(closures)
            /\ lastEvent' = "page"
            /\ UNCHANGED <<mounted, batchedUpdates, listItemLimit, emailTemplateTypeDetails,
                           emailTemplates, profileVars, sliceVars, configVars>>

handleItemsPerPageDropdownChange ==
    \E value \in ItemsPerPageOptions :
        LET closures == RenderFetches(CurrentDeps, emailTemplateTypeDetails, emailTemplates,
                                      listOffset, value)
        IN  /\ mounted
            /\ fetchCount + Len(closures) <= MaxFetches
            /\ listItemLimit' = value
            /\ paginatedemailTemplates' =
                    setEmailTemplateTypePage(emailTemplates, listOffset, value)
            /\ inflight' = inflight \cup Issue(closures)
            /\ fetchCount' = fetchCount + Len(closures)
            /\ lastEvent' = "size"
            /\ UNCHANGED <<mounted, batchedUpdates, listOffset, emailTemplateTypeDetails,
                           emailTemplates, profileVars, sliceVars, configVars>>

NextPage ==
    \/ Mount
    \/ getEmailTemplate_then
    \/ handlePaginationChange
    \/ handleItemsPerPageDropdownChange

\* The page left alone after it mounts, with a server that always answers alike.
NextMount ==
    \/ Mount
    \/ getEmailTemplate_thenSameList

(***************************************************************************)
(* The pagination slice as a pure function of a list, an offset and a      *)
(* limit.                                                                  *)
(***************************************************************************)
MaxSliceLen == 25
MaxSliceOffset == 27
MaxSliceLimit == 11

\* The list whose items are named by their zero-based index.
Items(n) == [i \in 1..n |-> i - 1]

ApplySlice ==
    /\ ~sliceDone
    /\ sliceResult' = setEmailTemplateTypePage(sliceList, sliceOffset, sliceLimit)
    /\ sliceDone' = TRUE
    /\ UNCHANGED <<sliceList, sliceOffset, sliceLimit, profileVars, pageVars, configVars>>

NextSlice == ApplySlice

(***************************************************************************)
(* Application feature configuration.                                      *)
(***************************************************************************)
Bool(b) == [t |-> "boolean", v |-> b]

\* The data leaves of applicationConfig; its function leaves are the hooks below.
ApplicationConfigObject ==
    [advancedConfigurations |->
        [showEnableAuthorization |-> TRUE, showMyAccount |-> FALSE,
         showReturnAuthenticatedIdPs |-> TRUE, showSaaS |-> TRUE],
     attributeSettings |->
        [advancedAttributeSettings |->
            [showIncludeTenantDomain |-> TRUE, showIncludeUserstoreDomainRole |-> TRUE,
             showIncludeUserstoreDomainSubject |-> TRUE, showRoleAttribute |-> TRUE,
             showRoleMapping |-> TRUE, showSubjectAttribute |-> FALSE,
             showUseMappedLocalSubject |-> TRUE],
         attributeSelection |-> [showAttributePlaceholderTitle |-> FALSE],
         makeSubjectMandatory |-> TRUE,
         roleMapping |-> TRUE],
     customApplication |-> [allowedProtocolTypes |-> <<>>, defaultTabIndex |-> 0],
     editApplication |->
        [extendTabs |-> FALSE, showApplicationShare |-> TRUE,
         showProvisioningSettings |-> TRUE],
     excludeIdentityClaims |-> FALSE,
     excludeSubjectClaim |-> FALSE,
     inboundOIDCForm |->
        [disabledGrantTypes |-> ("custom-application" :> <<>>),
         shouldValidateCertificate |-> TRUE, showBackChannelLogout |-> TRUE,
         showCertificates |-> TRUE, showClientSecretMessage |-> TRUE,
         showFrontChannelLogout |-> FALSE, showIdTokenEncryption |-> TRUE,
         showNativeClientSecretMessage |-> TRUE,
         showRequestObjectSignatureValidation |-> TRUE,
         showReturnAuthenticatedIdPList |-> TRUE, showScopeValidators |-> TRUE],
     inboundSAMLForm |->
        [artifactBindingAllowed |-> TRUE, showApplicationQualifier |-> TRUE,
         showAttributeConsumingServiceIndex |-> TRUE, showQueryRequestProfile |-> TRUE],
     signInMethod |->
        [authenticatorSelection |->
            [messages |-> [secondFactorDisabled |-> Null,
                           secondFactorDisabledInFirstStep |-> Null]]],
     templates |->
        [custom |-> TRUE, mobile |-> TRUE, oidc |-> TRUE, saml |-> TRUE,
         spa |-> TRUE, windows |-> TRUE]]

\* a === b, for primitive values.
StrictEquals(a, b) == a = b

\* The hooks, each with the arguments it is declared with.
getClaims(claims) == claims
getExternalClaims(claims) == claims
showShareAttributesHint(selectedDialect) == Bool(TRUE)
getActions(clientId, tenant, testId) == Null
getOveriddenTab(clientId, tabName, defaultComponent, appName, appId, tenantDomain) ==
    defaultComponent
getOverriddenDescription(clientId, templateName, tenantDomain) == Null
getOverriddenImage(clientId, tenantDomain) == Null

\* A tab index that does not look at the template.
getStrongAuthenticationFlowTabIndexAlwaysFour(clientId, tenantDomain, templateId, customApplicationTemplateId) ==
    Num(4)

getStrongAuthenticationFlowTabIndex(clientId, tenantDomain, templateId, customApplicationTemplateId) ==
    IF StrictEquals(templateId, customApplicationTemplateId) THEN Num(3) ELSE Num(4)

getTabPanelReadOnlyStatus(tabPanelName, applicationName) == Bool(FALSE)
isTabEnabledForApp(clientId, tabType, tenantDomain) == Bool(TRUE)
renderHelpPanelItems == Null
showDangerZone(application) == Bool(TRUE)
showDeleteButton(application) == Bool(TRUE)
getFieldReadOnlyStatus(application, fieldName) == Bool(FALSE)
getBannerComponent == Null
customAuthenticatorAdditionValidation == Bool(TRUE)

\* The values the callers pass.
ClientIds == {Undefined, Str("client-1"), Str("client-2")}
TenantDomains == {Str("carbon.super"), Str("example.com")}
TemplateIds == {Undefined, Str(""), Str("custom-application"),
                Str("b9c5e11e-fc78-484b-9bec-015d247561b8")}
TabTypes == {Str("GENERAL"), Str("SIGN_IN_METHOD")}
Components == {Null, Str("<GeneralSettings/>")}
Applications == {Str("app-1"), Str("app-2")}
ClaimLists == {Arr(<<>>), Arr(<<Str("http://wso2.org/claims/emailaddress")>>)}

\* One action per hook: it records the call and its result, and assigns nothing of
\* the configuration object.
Call_getClaims ==
    \E c \in ClaimLists : 
    /\ hook' = "getClaims"
    /\ hookArgs' = <<c>>
    /\ hookResult' = getClaims(c)
    /\ UNCHANGED <<applicationConfig, profileVars, pageVars, sliceVars>>

Call_getExternalClaims ==
    \E c \in ClaimLists : 
    /\ hook' = "getExternalClaims"
    /\ hookArgs' = <<c>>
    /\ hookResult' = getExternalClaims(c)
    /\ UNCHANGED <<applicationConfig, profileVars, pageVars, sliceVars>>

Call_showShareAttributesHint ==
    \E d \in {Str("oidc"), Str("saml")} :
        /\ hook' = "showShareAttributesHint"
        /\ hookArgs' = <<d>>
        /\ hookResult' = showShareAttributesHint(d)
        /\ UNCHANGED <<applicationConfig, profileVars, pageVars, sliceVars>>

Call_getActions ==
    \E c \in ClientIds, t \in TenantDomains :
        /\ hook' = "getActions"
        /\ hookArgs' = <<c, t, Str("test-id")>>
        /\ hookResult' = getActions(c, t, Str("test-id"))
        /\ UNCHANGED <<applicationConfig, profileVars, pageVars, sliceVars>>

Call_getOveriddenTab ==
    \E c \in ClientIds, tab \in TabTypes, d \in Components, t \in TenantDomains :
        /\ hook' = "getOveriddenTab"
        /\ hookArgs' = <<c, tab, d, Str("app"), Str("app-id"), t>>
        /\ hookResult' = getOveriddenTab(c, tab, d, Str("app"), Str("app-id"), t)
        /\ UNCHANGED <<applicationConfig, profileVars, pageVars, sliceVars>>

Call_getOverriddenDescription ==
    \E c \in ClientIds, n \in TemplateIds, t \in TenantDomains :
        /\ hook' = "getOverriddenDescription"
        /\ hookArgs' = <<c, n, t>>
        /\ hookResult' = getOverriddenDescription(c, n, t)
        /\ UNCHANGED <<applicationConfig, profileVars, pageVars, sliceVars>>

Call_getOverriddenImage ==
    \E c \in ClientIds, t \in TenantDomains :
        /\ hook' = "getOverriddenImage"
        /\ hookArgs' = <<c, t>>
        /\ hookResult' = getOverriddenImage(c, t)
        /\ UNCHANGED <<applicationConfig, profileVars, pageVars, sliceVars>>

Call_getStrongAuthenticationFlowTabIndex ==
    \E c \in ClientIds, t \in TenantDomains, id \in TemplateIds, custom \in TemplateIds :
        /\ hook' = "getStrongAuthenticationFlowTabIndex"
        /\ hookArgs' = <<c, t, id, custom>>
        /\ hookResult' = getStrongAuthenticationFlowTabIndex(c, t, id, custom)
        /\ UNCHANGED <<applicationConfig, profileVars, pageVars, sliceVars>>

Call_getTabPanelReadOnlyStatus ==
    \E tab \in TabTypes, a \in Applications :
        /\ hook' = "getTabPanelReadOnlyStatus"
        /\ hookArgs' = <<tab, a>>
        /\ hookResult' = getTabPanelReadOnlyStatus(tab, a)
        /\ UNCHANGED <<applicationConfig, profileVars, pageVars, sliceVars>>

Call_isTabEnabledForApp ==
    \E c \in ClientIds, tab \in TabTypes, t \in TenantDomains :
        /\ hook' = "isTabEnabledForApp"
        /\ hookArgs' = <<c, tab, t>>
        /\ hookResult' = isTabEnabledForApp(c, tab, t)
        /\ UNCHANGED <<applicationConfig, profileVars, pageVars, sliceVars>>

Call_renderHelpPanelItems ==
    /\ hook' = "renderHelpPanelItems"
    /\ hookArgs' = <<>>
    /\ hookResult' = renderHelpPanelItems
    /\ UNCHANGED <<applicationConfig, profileVars, pageVars, sliceVars>>

Call_showDangerZone ==
    \E a \in Applications : 
    /\ hook' = "showDangerZone"
    /\ hookArgs' = <<a>>
    /\ hookResult' = showDangerZone(a)
    /\ UNCHANGED <<applicationConfig, profileVars, pageVars, sliceVars>>

Call_showDeleteButton ==
    \E a \in Applications : 
    /\ hook' = "showDeleteButton"
    /\ hookArgs' = <<a>>
    /\ hookResult' = showDeleteButton(a)
    /\ UNCHANGED <<applicationConfig, profileVars, pageVars, sliceVars>>

Call_getFieldReadOnlyStatus ==
    \E a \in Applications, f \in {Str("name"), Str("description")} :
        /\ hook' = "getFieldReadOnlyStatus"
        /\ hookArgs' = <<a, f>>
        /\ hookResult' = getFieldReadOnlyStatus(a, f)
        /\ UNCHANGED <<applicationConfig, profileVars, pageVars, sliceVars>>

Call_getBannerComponent ==
    /\ hook' = "getBannerComponent"
    /\ hookArgs' = <<>>
    /\ hookResult' = getBannerComponent
    /\ UNCHANGED <<applicationConfig, profileVars, pageVars, sliceVars>>

Call_customAuthenticatorAdditionValidation ==
    /\ hook' = "customAuthenticatorAdditionValidation"
    /\ hookArgs' = <<>>
    /\ hookResult' = customAuthenticatorAdditionValidation
    /\ UNCHANGED <<applicationConfig, profileVars, pageVars, sliceVars>>

NextConfig ==
    \/ Call_getClaims
    \/ Call_getExternalClaims
    \/ Call_showShareAttributesHint
    \/ Call_getActions
    \/ Call_getOveriddenTab
    \/ Call_getOverriddenDescription
    \/ Call_getOverriddenImage
    \/ Call_getStrongAuthenticationFlowTabIndex
    \/ Call_getTabPanelReadOnlyStatus
    \/ Call_isTabEnabledForApp
    \/ Call_renderHelpPanelItems
    \/ Call_showDangerZone
    \/ Call_showDeleteButton
    \/ Call_getFieldReadOnlyStatus
    \/ Call_getBannerComponent
    \/ Call_customAuthenticatorAdditionValidation

(***************************************************************************)
(* Specifications.                                                         *)
(***************************************************************************)
\* No call made yet; the page and the slice stay as constructed.
InitProfile ==
    /\ op = "none"
    /\ pc = "idle"
    /\ response = Undefined
    /\ promise = NoPromise
    /\ gravatarPromise = NoPromise
    /\ gravatarUrl = Undefined
    /\ originalError = Undefined
    /\ events = <<>>
    /\ mounted = FALSE
    /\ batchedUpdates = TRUE
    /\ listItemLimit = 0
    /\ listOffset = 0
    /\ emailTemplateTypeDetails = NoDetails
    /\ emailTemplates = <<>>
    /\ paginatedemailTemplates = <<>>
    /\ inflight = {}
    /\ fetchCount = 0
    /\ lastEvent = "none"
    /\ sliceList = <<>>
    /\ sliceOffset = 0
    /\ sliceLimit = 0
    /\ sliceResult = <<>>
    /\ sliceDone = FALSE
    /\ applicationConfig = ApplicationConfigObject
    /\ hook = "none"
    /\ hookArgs = <<>>
    /\ hookResult = Undefined

SpecProfile == InitProfile /\ [][NextProfile]_vars

\* The page after its first render, before its effects ran.
InitPage ==
    /\ op = "none"
    /\ pc = "idle"
    /\ response = Undefined
    /\ promise = NoPromise
    /\ gravatarPromise = NoPromise
    /\ gravatarUrl = Undefined
    /\ originalError = Undefined
    /\ events = <<>>
    /\ mounted = FALSE
    /\ batchedUpdates \in BOOLEAN
    /\ listItemLimit = 0
    /\ listOffset = 0
    /\ emailTemplateTypeDetails = NoDetails
    /\ emailTemplates = <<>>
    /\ paginatedemailTemplates = <<>>
    /\ inflight = {}
    /\ fetchCount = 0
    /\ lastEvent = "none"
    /\ sliceList = <<>>
    /\ sliceOffset = 0
    /\ sliceLimit = 0
    /\ sliceResult = <<>>
    /\ sliceDone = FALSE
    /\ applicationConfig = ApplicationConfigObject
    /\ hook = "none"
    /\ hookArgs = <<>>
    /\ hookResult = Undefined

SpecPage == InitPage /\ [][NextPage]_vars

\* The mount effects run, and every request is answered in the end; the answers
\* come in any order.
SpecMount ==
    InitPage /\ [][NextMount]_vars /\ WF_vars(Mount) /\ WF_vars(getEmailTemplate_thenSameList)

\* Any list, offset and limit within the bounds, the slice not yet taken.
InitSlice ==
    /\ op = "none"
    /\ pc = "idle"
    /\ response = Undefined
    /\ promise = NoPromise
    /\ gravatarPromise = NoPromise
    /\ gravatarUrl = Undefined
    /\ originalError = Undefined
    /\ events = <<>>
    /\ mounted = FALSE
    /\ batchedUpdates = TRUE
    /\ listItemLimit = 0
    /\ listOffset = 0
    /\ emailTemplateTypeDetails = NoDetails
    /\ emailTemplates = <<>>
    /\ paginatedemailTemplates = <<>>
    /\ inflight = {}
    /\ fetchCount = 0
    /\ lastEvent = "none"
    /\ sliceList \in {Items(n) : n \in 0..MaxSliceLen}
    /\ sliceOffset \in 0..MaxSliceOffset
    /\ sliceLimit \in 0..MaxSliceLimit
    /\ sliceResult = <<>>
    /\ sliceDone = FALSE
    /\ applicationConfig = ApplicationConfigObject
    /\ hook = "none"
    /\ hookArgs = <<>>
    /\ hookResult = Undefined

SpecSlice == InitSlice /\ [][NextSlice]_vars

\* The configuration object as the module creates it, no hook called yet.
InitConfig ==
    /\ op = "none"
    /\ pc = "idle"
    /\ response = Undefined
    /\ promise = NoPromise
    /\ gravatarPromise = NoPromise
    /\ gravatarUrl = Undefined
    /\ originalError = Undefined
    /\ events = <<>>
    /\ mounted = FALSE
    /\ batchedUpdates = TRUE
    /\ listItemLimit = 0
    /\ listOffset = 0
    /\ emailTemplateTypeDetails = NoDetails
    /\ emailTemplates = <<>>
    /\ paginatedemailTemplates = <<>>
    /\ inflight = {}
    /\ fetchCount = 0
    /\ lastEvent = "none"
    /\ sliceList = <<>>
    /\ sliceOffset = 0
    /\ sliceLimit = 0
    /\ sliceResult = <<>>
    /\ sliceDone = FALSE
    /\ applicationConfig = ApplicationConfigObject
    /\ hook = "none"
    /\ hookArgs = <<>>
    /\ hookResult = Undefined

SpecConfig == InitConfig /\ [][NextConfig]_vars

(***************************************************************************)
(* Properties.                                                             *)
(***************************************************************************)
\* The call is over and its request failed before any then handler ran.
TransportFailed == pc = "done" /\ response = Undefined /\ originalError # Undefined

\* getProfileInfo is over and its then handler saw a response with status 200.
ProfileInfoOk ==
    /\ op = "getProfileInfo"
    /\ pc = "done"
    /\ Get(response, "status") = Num(200)

HasKey(o, k) == o.t = "object" /\ k \in DOMAIN o.v

InvalidResponseCodeOf ==
    [getProfileInfo |-> PROFILE_INFO_FETCH_REQUEST_INVALID_RESPONSE_CODE_ERROR,
     updateProfileInfo |-> PROFILE_INFO_UPDATE_REQUEST_INVALID_RESPONSE_CODE_ERROR,
     getProfileSchemas |-> SCHEMA_FETCH_REQUEST_INVALID_RESPONSE_CODE_ERROR]

RequestErrorOf ==
    [getGravatarImage |-> GRAVATAR_IMAGE_FETCH_REQUEST_ERROR,
     getProfileInfo |-> PROFILE_INFO_FETCH_REQUEST_ERROR,
     updateProfileInfo |-> PROFILE_INFO_UPDATE_REQUEST_ERROR,
     getProfileSchemas |-> SCHEMA_FETCH_REQUEST_ERROR,
     switchAccount |-> ACCOUNT_SWITCH_REQUEST_ERROR]

\* exception carries errorCode and the stack, code, request, response and config of error.
Carries(exception, errorCode, error) ==
    /\ Get(exception, "errorCode") = Str(errorCode)
    /\ \A k \in {"stack", "code", "request", "response", "config"} :
            Get(exception, k) = Get(error, k)

\* The items of list at the zero-based indices offset .. min(offset + limit, length) - 1.
PageOf(list, offset, limit) ==
    [i \in 1..(Min(offset + limit, Len(list)) - offset) |-> list[offset + i]]

\* C1: for getProfileInfo, updateProfileInfo and getProfileSchemas, a response whose
\* status is not 200 makes the returned promise reject with the operation's
\* invalid-response-code error constant.
C1_InvalidResponseCodeRaised ==
    (/\ pc = "done"
     /\ op \in DOMAIN InvalidResponseCodeOf
     /\ response # Undefined
     /\ Get(response, "status") # Num(200))
    => /\ promise.state = "rejected"
       /\ Get(promise.value, "errorCode") = Str(InvalidResponseCodeOf[op])

\* C2: in getProfileInfo, with a status-200 response that has neither userImage nor
\* profileUrl, a Gravatar lookup is attempted, and when it fails (the request
\* fails, or emails is missing or empty) the promise resolves with userImage "".
C2_GravatarFailureDegrades ==
    (/\ ProfileInfoOk
     /\ ~HasKey(Get(response, "data"), "userImage")
     /\ ~HasKey(Get(response, "data"), "profileUrl")
     /\ gravatarPromise.state \in {"rejected", "none"})
    => /\ Count("gravatarAttempt") = 1
       /\ gravatarPromise.state = "none" =>
            /\ EmailArgumentThrows(Get(response, "data"))
            /\ Count("axios.request") = 0
       /\ promise.state = "resolved"
       /\ Get(promise.value, "userImage") = Str("")

C2_Witness ==
    /\ ProfileInfoOk
    /\ ~HasKey(Get(response, "data"), "userImage")
    /\ ~HasKey(Get(response, "data"), "profileUrl")
    /\ gravatarPromise.state = "rejected"
    /\ promise.state = "resolved"

\* The status the payload of the error's response carries.
PayloadStatus == Get(Get(Get(originalError, "response"), "data"), "status")

ServerField(k) == Get(Get(response, "data"), k)

\* C4: for a status-200 response, the profile getProfileInfo returns has a default
\* for each field absent from the response data (emails, organisation, profileUrl,
\* userName: ""; phoneNumbers, roles: []; name: empty familyName and givenName),
\* and every field present in the response keeps the server's value.
C4_DefaultsForAbsentFields ==
    ProfileInfoOk =>
        /\ promise.state = "resolved"
        /\ \A k \in {"emails", "profileUrl", "userName"} :
                Get(promise.value, k) =
                    IF HasKey(Get(response, "data"), k) THEN ServerField(k) ELSE Str("")
        /\ \A k \in {"phoneNumbers", "roles"} :
                Get(promise.value, k) =
                    IF HasKey(Get(response, "data"), k) THEN ServerField(k) ELSE Arr(<<>>)
        /\ Get(promise.value, "name") =
                IF HasKey(Get(response, "data"), "name")
                    THEN ServerField("name")
                    ELSE Obj([familyName |-> Str(""), givenName |-> Str("")])
        /\ Get(promise.value, "organisation") =
                IF HasKey(ServerField(orgKey), "organization")
                    THEN Get(ServerField(orgKey), "organization")
                    ELSE Str("")
        /\ \A k \in DOMAIN Get(response, "data").v :
                Get(promise.value, k) = ServerField(k)

\* C5: the page setEmailTemplateTypePage(offset, limit) computes over a list is the
\* items at indices offset up to but excluding min(offset + limit, length), in
\* order; over 25 items (0, 10) gives items 0-9 and (20, 10) gives items 20-24.
C5_PageIsSlice ==
    sliceDone =>
        /\ sliceResult = PageOf(sliceList, sliceOffset, sliceLimit)
        /\ (Len(sliceList) = 25 /\ sliceOffset = 0 /\ sliceLimit = 10)
                => sliceResult = <<0, 1, 2, 3, 4, 5, 6, 7, 8, 9>>
        /\ (Len(sliceList) = 25 /\ sliceOffset = 20 /\ sliceLimit = 10)
                => sliceResult = <<20, 21, 22, 23, 24>>

C5_Witness ==
    /\ sliceDone
    /\ Len(sliceList) = 25
    /\ sliceOffset = 20
    /\ sliceLimit = 10
    /\ sliceResult = <<20, 21, 22, 23, 24>>

\* C6: a page change or a page-size change issues no getEmailTemplate request: it
\* only sets listOffset or listItemLimit and recomputes the visible slice from the
\* list already fetched, with the new value.
C6_PaginationDoesNotFetch ==
    [][lastEvent' \in {"page", "size"} =>
            /\ fetchCount' = fetchCount
            /\ inflight' = inflight
            /\ emailTemplates' = emailTemplates
            /\ emailTemplateTypeDetails' = emailTemplateTypeDetails
            /\ lastEvent' = "page" => listItemLimit' = listItemLimit
            /\ lastEvent' = "size" => listOffset' = listOffset
            /\ paginatedemailTemplates' = PageOf(emailTemplates, listOffset', listItemLimit')
      ]_vars

C6_Witness ==
    /\ lastEvent = "page"
    /\ listOffset > 0
    /\ paginatedemailTemplates # <<>>
    /\ inflight = {}

\* C7: for each of the five operations, a transport-level failure of its request
\* makes the returned promise reject with an exception that carries the operation's
\* request-error constant and the original error's stack, code, request, response
\* and config.
C7_TransportFailureWrapped ==
    /\ TransportFailed =>
            /\ promise.state = "rejected"
            /\ Carries(promise.value, RequestErrorOf[op], originalError)
    /\ gravatarPromise.state = "rejected" =>
            Carries(gravatarPromise.value, GRAVATAR_IMAGE_FETCH_REQUEST_ERROR, originalError)

C7_Witness ==
    /\ TransportFailed
    /\ op = "switchAccount"
    /\ promise.state = "rejected"
    /\ Get(promise.value, "stack") = Str("stack2")
    /\ Get(promise.value, "response") # Undefined

\* C8: whenever no getEmailTemplate request is in flight, the rendered slice is
\* emailTemplates[listOffset : listOffset + listItemLimit].
C8_SliceMatchesState ==
    (mounted /\ inflight = {})
    => paginatedemailTemplates = PageOf(emailTemplates, listOffset, listItemLimit)

\* C9: getProfileInfo issues a Gravatar request only when the status-200 response
\* has an empty userImage and no profileUrl; otherwise it issues none and returns
\* the server's userImage if non-empty, else the profileUrl.
C9_GravatarOnlyWithoutImage ==
    (op = "getProfileInfo" /\ Get(response, "status") = Num(200)) =>
        LET userImage == ServerField("userImage")
            profileUrl == ServerField("profileUrl")
            hasImage == ~IsEmpty(userImage) \/ Truthy(profileUrl)
        IN  /\ Count("axios.request") > 0 => ~hasImage
            /\ (pc = "done" /\ hasImage) =>
                    /\ Count("axios.request") = 0
                    /\ promise.state = "resolved"
                    /\ Get(promise.value, "userImage") =
                            IF ~IsEmpty(userImage) THEN userImage ELSE profileUrl

\* C10: when the Gravatar fallback of getProfileInfo is attempted and succeeds, the
\* returned profile's userImage is the resolved Gravatar URL, also when the
\* response holds userImage as an empty string.
C10_GravatarImageKept ==
    (ProfileInfoOk /\ gravatarPromise.state = "resolved")
    => /\ promise.state = "resolved"
       /\ Get(promise.value, "userImage") = gravatarUrl

\* C11: after the page mounts, with every getEmailTemplate response of status 200
\* and the same template list, the fetch effect stops re-firing after finitely many
\* requests, and then emailTemplates holds the fetched list and the visible slice
\* is its first listItemLimit items.
C11_MountFetchSettles ==
    (mounted /\ inflight = {})
    => /\ emailTemplateTypeDetails.defined
       /\ emailTemplates = emailTemplateTypeDetails.data.templates
       /\ paginatedemailTemplates = PageOf(emailTemplates, 0, listItemLimit)

\* The part of C11 that holds: at most three requests are issued, every one is
\* answered, and emailTemplates then holds the fetched list.
C11_FetchesStop == <>[](mounted /\ inflight = {})

C11_FetchedListHeld ==
    /\ fetchCount <= 3
    /\ (mounted /\ inflight = {})
            => /\ emailTemplateTypeDetails.defined
               /\ emailTemplates = emailTemplateTypeDetails.data.templates
               /\ paginatedemailTemplates
                    \in {<<>>, PageOf(emailTemplates, 0, listItemLimit)}

\* C12: getStrongAuthenticationFlowTabIndex returns 3 exactly when templateId equals
\* customApplicationTemplateId and 4 otherwise, whatever clientId and tenantDomain
\* are, and a call of it or of any other hook leaves the configuration unchanged.
C12_TabIndexFromTemplate ==
    /\ applicationConfig = ApplicationConfigObject
    /\ hook = "getStrongAuthenticationFlowTabIndex" =>
            /\ hookArgs[3] = hookArgs[4] <=> hookResult = Num(3)
            /\ hookArgs[3] # hookArgs[4] <=> hookResult = Num(4)

C12_Witness ==
    /\ hook = "getStrongAuthenticationFlowTabIndex"
    /\ hookArgs[1] = Str("client-2")
    /\ hookArgs[3] = Str("custom-application")
    /\ hookArgs[4] = Str("custom-application")
    /\ hookResult = Num(3)

====
